---------------------------- MODULE Spec2Model ----------------------------
(***************************************************************************)
(* Genotype-to-phenotype mapping of PonyGE2 (src/algorithm/mapper.py).     *)
(*                                                                         *)
(* The three forward strategies (map_tree_from_genome with its recursive   *)
(* helper genome_tree_map, map_ind_from_genome, map_PI_ind_from_genome)    *)
(* and the dispatcher mapper are modelled step by step: one action per     *)
(* loop iteration or per call / child / return step of the recursion.      *)
(* Python lists are TLA+ sequences; Python 0-based indices are kept as     *)
(* numbers and shifted by one only where a sequence is subscripted.        *)
(***************************************************************************)
EXTENDS Integers, Sequences, FiniteSets, TLC

(***************************************************************************)
(* Bounds of the model.                                                    *)
(***************************************************************************)
MaxLen == 3
MaxCodon == 2
MaxWraps == 2
MaxDepth == 3

(* No item deeper than this is ever expanded: the loops stop as soon as    *)
(* max_depth exceeds MAX_TREE_DEPTH <= MaxDepth.  The position-independent *)
(* loop carries it as a guard, which its loop condition implies.           *)
DepthCap == MaxDepth + 1

(***************************************************************************)
(* Python values.                                                          *)
(***************************************************************************)
None == <<>>
Some(x) == <<x>>

RECURSIVE Join(_)
Join(strs) == IF strs = <<>> THEN "" ELSE Head(strs) \o Join(Tail(strs))

Reverse(s) == [i \in 1..Len(s) |-> s[Len(s) + 1 - i]]

(***************************************************************************)
(* Grammars (params['BNF_GRAMMAR']): the fields the mapper reads.          *)
(***************************************************************************)
NT(name) == [type |-> "NT", symbol |-> name]
T(text) == [type |-> "T", symbol |-> text]
Choice(symbols) == [choice |-> symbols]
Rule(choices) == [choices |-> choices, no_choices |-> Len(choices)]

GrammarTable ==
    [aS |->
       [start_rule |-> NT("S"), non_terminals |-> {"S"}, python_mode |-> FALSE,
        rules |-> [S |-> Rule(<<Choice(<<T("a"), NT("S")>>),
                                Choice(<<T("b")>>)>>)]],
     Sa |->
       [start_rule |-> NT("S"), non_terminals |-> {"S"}, python_mode |-> FALSE,
        rules |-> [S |-> Rule(<<Choice(<<NT("S"), T("a")>>),
                                Choice(<<T("b")>>)>>)]],
     SS |->
       [start_rule |-> NT("S"), non_terminals |-> {"S"}, python_mode |-> FALSE,
        rules |-> [S |-> Rule(<<Choice(<<NT("S"), NT("S")>>),
                                Choice(<<T("b")>>)>>)]],
     AB |->
       [start_rule |-> NT("S"), non_terminals |-> {"S", "A", "B"},
        python_mode |-> FALSE,
        rules |-> [S |-> Rule(<<Choice(<<NT("A"), NT("B")>>)>>),
                   A |-> Rule(<<Choice(<<T("a")>>),
                                Choice(<<T("b"), NT("A")>>)>>),
                   B |-> Rule(<<Choice(<<T("c")>>),
                                Choice(<<NT("S"), T("d")>>),
                                Choice(<<NT("A")>>)>>)]]]

GrammarNames == DOMAIN GrammarTable

Grammar(name) == GrammarTable[name]

Genomes == UNION {[1..n -> 0..MaxCodon] : n \in 1..MaxLen}

VARIABLES
    params,              \* the params dictionary: the keys the mapper reads
    genome,              \* the genome handed to mapper
    pc,                  \* where the caller / the running strategy stands
    used_input,          \* map_ind_from_genome, map_PI_ind_from_genome
    wraps,
    max_depth,           \* all three strategies
    nodes,
    output,
    unexpanded_symbols,  \* map_ind_from_genome: deque of <<symbol, depth>>
    production_queue,    \* map_PI_ind_from_genome: list of <<symbol, depth>>
    mask,
    position,
    tree,                \* map_tree_from_genome: the Tree nodes, root first
    stack,               \* active genome_tree_map calls, innermost last
    index,
    invalid,
    ret,                 \* the tuple mapper returned last (None before)
    prev                 \* the previous call's inputs and result, if kept

vars == <<params, genome, pc, used_input, wraps, max_depth, nodes, output,
          unexpanded_symbols, production_queue, mask, position,
          tree, stack, index, invalid, ret, prev>>

fqVars == <<unexpanded_symbols>>
piVars == <<production_queue, mask, position>>
treeVars == <<tree, stack, index, invalid>>

bnf_grammar == Grammar(params.BNF_GRAMMAR)

(***************************************************************************)
(* Shared pieces of the three strategies.                                  *)
(***************************************************************************)
IsNT(item) == item[1].type = "NT"

AnyNT(items) == \E i \in 1..Len(items) : IsNT(items[i])

Mutant_CodonAt(g, i) == g[((i + 1) % Len(g)) + 1]

\* genome[i % len(genome)]
CodonAt(g, i) == g[(i % Len(g)) + 1]

Mutant_Selection(codon, no_choices) == (codon + 1) % no_choices

\* codon % no_choices
Selection(codon, no_choices) == codon % no_choices

\* production_choices[current_production]['choice']
ChosenProd(symbol, selection) ==
    bnf_grammar.rules[symbol].choices[selection + 1].choice

\* child = [prod, current_depth + 1] for every prod of the production
Children(prod, current_depth) ==
    [i \in 1..Len(prod) |-> <<prod[i], current_depth + 1>>]

NTCount(children) == Cardinality({i \in 1..Len(children) : IsNT(children[i])})

\* nodes += nt_count if nt_count > 0 else 1
CountNodes(n, nt_count) == IF nt_count > 0 THEN n + nt_count ELSE n + 1

\* the wrap check that opens each iteration of both queue strategies
WrapCheck(w, used, n_input, items) ==
    IF used % n_input = 0 /\ used > 0 /\ AnyNT(items) THEN w + 1 ELSE w

Result(phenotype, g, n, inv, depth, used_codons) ==
    [phenotype |-> phenotype, genome |-> g, nodes |-> n, invalid |-> inv,
     depth |-> depth, used_codons |-> used_codons]

(***************************************************************************)
(* mapper, genome-present path: the strategy the two flags select.         *)
(***************************************************************************)
Strategy(p) ==
    IF p.GENOME_OPERATIONS /\ ~p.PI_MAPPING THEN "fq"
    ELSE IF p.GENOME_OPERATIONS /\ p.PI_MAPPING THEN "pi"
    ELSE "tree"

\* Tree(expr, parent): a fresh node
NewTree(expr, parent) ==
    [root |-> expr, parent |-> parent, children |-> <<>>, codon |-> None,
     id |-> None, depth |-> None]

Frame(node, depth) == [node |-> node, depth |-> depth, pc |-> "enter", i |-> 0]

Idle ==
    /\ used_input = 0 /\ wraps = 0 /\ max_depth = 0 /\ nodes = 0
    /\ output = <<>> /\ unexpanded_symbols = <<>>
    /\ production_queue = <<>> /\ mask = <<>> /\ position = 0
    /\ tree = <<>> /\ stack = <<>> /\ index = 0 /\ invalid = FALSE

Init ==
    /\ params \in [GENOME_OPERATIONS : BOOLEAN, PI_MAPPING : BOOLEAN,
                   MAX_WRAPS : 0..MaxWraps, MAX_TREE_DEPTH : 1..MaxDepth,
                   BNF_GRAMMAR : GrammarNames]
    /\ genome \in Genomes
    /\ pc = "idle"
    /\ Idle
    /\ ret = None
    /\ prev = None

\* mapper(genome, None): dispatch and the chosen strategy's initialisation
MapGenome ==
    /\ pc = "idle"
    /\ genome # <<>>
    /\ ret' = None
    /\ output' = <<>>
    /\ UNCHANGED <<params, genome, prev>>
    /\ CASE Strategy(params) = "fq" ->
              /\ pc' = "fq"
              /\ used_input' = 0 /\ max_depth' = 1 /\ nodes' = 1 /\ wraps' = -1
              /\ unexpanded_symbols' = <<<<bnf_grammar.start_rule, 1>>>>
              /\ production_queue' = <<>> /\ mask' = <<>> /\ position' = 0
              /\ tree' = <<>> /\ stack' = <<>> /\ index' = 0 /\ invalid' = FALSE
         [] Strategy(params) = "pi" ->
              /\ pc' = "pi"
              /\ used_input' = 1 /\ max_depth' = 1 /\ nodes' = 1 /\ wraps' = -1
              /\ production_queue' = <<<<bnf_grammar.start_rule, 1>>>>
              /\ position' = 0 /\ mask' = <<0>>
              /\ unexpanded_symbols' = <<>>
              /\ tree' = <<>> /\ stack' = <<>> /\ index' = 0 /\ invalid' = FALSE
         [] Strategy(params) = "tree" ->
              /\ pc' = "tree"
              /\ tree' = <<NewTree(bnf_grammar.start_rule.symbol, None)>>
              /\ stack' = <<Frame(1, 0)>>
              /\ index' = 0 /\ max_depth' = 0 /\ nodes' = 0 /\ invalid' = FALSE
              /\ used_input' = 0 /\ wraps' = 0
              /\ unexpanded_symbols' = <<>>
              /\ production_queue' = <<>> /\ mask' = <<>> /\ position' = 0

(***************************************************************************)
(* map_ind_from_genome                                                     *)
(***************************************************************************)
FQLoopCond(w, max_wraps, items, md, max_tree_depth) ==
    /\ w < max_wraps
    /\ items # <<>>
    /\ md <= max_tree_depth

\* one iteration of the while loop
FQStep ==
    /\ pc = "fq"
    /\ FQLoopCond(wraps, params.MAX_WRAPS, unexpanded_symbols, max_depth,
                  params.MAX_TREE_DEPTH)
    /\ LET n_input == Len(genome)
           current_item == Head(unexpanded_symbols)
           current_symbol == current_item[1]
           current_depth == current_item[2]
       IN  /\ wraps' = WrapCheck(wraps, used_input, n_input, unexpanded_symbols)
           /\ max_depth' = IF max_depth < current_depth THEN current_depth
                           ELSE max_depth
           /\ IF current_symbol.type # "NT"
              THEN /\ output' = Append(output, current_symbol.symbol)
                   /\ unexpanded_symbols' = Tail(unexpanded_symbols)
                   /\ UNCHANGED <<used_input, nodes>>
              ELSE LET no_choices ==
                           bnf_grammar.rules[current_symbol.symbol].no_choices
                       current_production ==
                           Selection(CodonAt(genome, used_input), no_choices)
                       prod == ChosenProd(current_symbol.symbol,
                                          current_production)
                       \* children.appendleft(child) for each child
                       children == Reverse(Children(prod, current_depth))
                   IN  /\ used_input' = used_input + 1
                       \* unexpanded_symbols.extendleft(children)
                       /\ unexpanded_symbols' =
                              Reverse(children) \o Tail(unexpanded_symbols)
                       /\ nodes' = CountNodes(nodes, NTCount(children))
                       /\ UNCHANGED output
    /\ UNCHANGED <<params, genome, pc, ret, prev>>
    /\ UNCHANGED <<piVars, treeVars>>

\* the code after the loop
FQFinish ==
    /\ pc = "fq"
    /\ ~FQLoopCond(wraps, params.MAX_WRAPS, unexpanded_symbols, max_depth,
                   params.MAX_TREE_DEPTH)
    /\ ret' = IF Len(unexpanded_symbols) > 0
              THEN Some(Result(None, genome, nodes, TRUE, max_depth, used_input))
              ELSE Some(Result(Some(Join(output)), genome, nodes, FALSE,
                               max_depth, used_input))
    /\ pc' = "done"
    /\ UNCHANGED <<params, genome, prev, used_input, wraps, max_depth, nodes,
                   output>>
    /\ UNCHANGED <<fqVars, piVars, treeVars>>

(***************************************************************************)
(* map_PI_ind_from_genome                                                  *)
(***************************************************************************)
\* list.index(x): the 0-based position of the first element equal to x
ListIndex(list, x) ==
    (CHOOSE i \in 1..Len(list) :
        /\ list[i] = x
        /\ \A j \in 1..(i - 1) : list[j] # x) - 1

\* [production_queue.index(NT) for NT in production_queue if NT is an NT],
\* for the entries of the queue from position i (1-based) on
RECURSIVE MaskFrom(_, _)
MaskFrom(queue, i) ==
    IF i > Len(queue) THEN <<>>
    ELSE IF IsNT(queue[i])
         THEN <<ListIndex(queue, queue[i])>> \o MaskFrom(queue, i + 1)
         ELSE MaskFrom(queue, i + 1)

NewMask(queue) == MaskFrom(queue, 1)

Mutant_PILoopCond(w, max_wraps, m, md, max_tree_depth) ==
    /\ w < max_wraps
    /\ m # <<>>

PILoopCond(w, max_wraps, m, md, max_tree_depth) ==
    /\ w < max_wraps
    /\ m # <<>>
    /\ md <= max_tree_depth

\* one iteration of the while loop
PIStep ==
    /\ pc = "pi"
    /\ PILoopCond(wraps, params.MAX_WRAPS, mask, max_depth,
                  params.MAX_TREE_DEPTH)
    /\ max_depth <= DepthCap
    /\ LET n_input == Len(genome)
           mask_index == mask[(CodonAt(genome, position) % Len(mask)) + 1]
           current_item == production_queue[mask_index + 1]
           current_symbol == current_item[1]
           current_depth == current_item[2]
           no_choices == bnf_grammar.rules[current_symbol.symbol].no_choices
           current_production ==
               Selection(CodonAt(genome, used_input), no_choices)
           children == Children(ChosenProd(current_symbol.symbol,
                                           current_production), current_depth)
           queue == SubSeq(production_queue, 1, mask_index) \o children \o
                    SubSeq(production_queue, mask_index + 2,
                           Len(production_queue))
       IN  /\ wraps' = WrapCheck(wraps, used_input, n_input, production_queue)
           /\ position' = position + 2
           /\ max_depth' = IF max_depth < current_depth THEN current_depth
                           ELSE max_depth
           /\ used_input' = used_input + 2
           /\ production_queue' = queue
           /\ nodes' = CountNodes(nodes, NTCount(children))
           /\ mask' = NewMask(production_queue')
    /\ UNCHANGED <<params, genome, pc, ret, prev, output>>
    /\ UNCHANGED <<fqVars, treeVars>>

\* the code after the loop
PIFinish ==
    /\ pc = "pi"
    /\ ~PILoopCond(wraps, params.MAX_WRAPS, mask, max_depth,
                   params.MAX_TREE_DEPTH)
    /\ output' = [i \in 1..Len(production_queue) |->
                      production_queue[i][1].symbol]
    /\ ret' = IF Len(mask) > 0
              THEN Some(Result(None, genome, nodes, TRUE, max_depth, used_input))
              ELSE Some(Result(Some(Join(output')), genome, nodes, FALSE,
                               max_depth, used_input))
    /\ pc' = "done"
    /\ UNCHANGED <<params, genome, prev, used_input, wraps, max_depth, nodes>>
    /\ UNCHANGED <<fqVars, piVars, treeVars>>

(***************************************************************************)
(* map_tree_from_genome and genome_tree_map                                *)
(***************************************************************************)
Top == stack[Len(stack)]

Pop(s) == SubSeq(s, 1, Len(s) - 1)

\* where control goes when a genome_tree_map call returns
AfterReturn(s) == IF Pop(s) = <<>> THEN "tree_ret" ELSE "tree"

Mutant_TreeCanContinue(inv, i, n, max_wraps, md, max_tree_depth) ==
    /\ ~inv
    /\ i * (max_wraps + 1) < n
    /\ md <= max_tree_depth

\* the condition that opens genome_tree_map
TreeCanContinue(inv, i, n, max_wraps, md, max_tree_depth) ==
    /\ ~inv
    /\ i < n * (max_wraps + 1)
    /\ md <= max_tree_depth

Mutant_DepthExceeded(md, max_tree_depth) == md >= max_tree_depth

\* max_depth > params['MAX_TREE_DEPTH']
DepthExceeded(md, max_tree_depth) == md > max_tree_depth

\* a call of genome_tree_map up to the loop over the chosen production,
\* or its immediate return when mapping cannot continue
TreeEnter ==
    /\ pc = "tree"
    /\ Top.pc = "enter"
    /\ IF TreeCanContinue(invalid, index, Len(genome), params.MAX_WRAPS,
                          max_depth, params.MAX_TREE_DEPTH)
       THEN LET codon == CodonAt(genome, index)
                no_choices == bnf_grammar.rules[tree[Top.node].root].no_choices
            IN  /\ nodes' = nodes + 1
                /\ tree' = [tree EXCEPT ![Top.node] =
                               [@ EXCEPT !.id = Some(nodes + 1),
                                         !.depth = Some(Top.depth + 1),
                                         !.codon = Some(codon),
                                         !.children = <<>>]]
                /\ stack' = [stack EXCEPT ![Len(stack)] =
                               [@ EXCEPT !.depth = Top.depth + 1,
                                         !.pc = "loop",
                                         !.i = 0]]
                /\ index' = index + 1
                /\ UNCHANGED <<invalid, pc>>
       ELSE /\ invalid' = TRUE
            /\ stack' = Pop(stack)
            /\ pc' = AfterReturn(stack)
            /\ UNCHANGED <<nodes, tree, index>>
    /\ UNCHANGED <<params, genome, ret, prev, used_input, wraps, max_depth,
                   output>>
    /\ UNCHANGED <<fqVars, piVars>>

\* the production the node on top of the stack chose
TopProd ==
    LET node == tree[Top.node]
    IN  ChosenProd(node.root,
                   Selection(node.codon[1],
                             bnf_grammar.rules[node.root].no_choices))

\* one iteration of the loop over chosen_prod['choice']
TreeChild ==
    /\ pc = "tree"
    /\ Top.pc = "loop"
    /\ Top.i < Len(TopProd)
    /\ LET symbol == TopProd[Top.i + 1]
           child == Len(tree) + 1
       IN  /\ tree' = Append([tree EXCEPT ![Top.node].children =
                                              Append(@, child)],
                             NewTree(symbol.symbol, Some(Top.node)))
           /\ IF symbol.type = "T"
              THEN /\ output' = Append(output, symbol.symbol)
                   /\ stack' = [stack EXCEPT ![Len(stack)].i = Top.i + 1]
              ELSE /\ output' = output
                   /\ stack' = Append([stack EXCEPT ![Len(stack)].i = Top.i + 1],
                                      Frame(child, Top.depth))
    /\ UNCHANGED <<params, genome, pc, ret, prev, used_input, wraps, max_depth,
                   nodes, index, invalid>>
    /\ UNCHANGED <<fqVars, piVars>>

\* the code of genome_tree_map after the loop
TreeReturn ==
    /\ pc = "tree"
    /\ Top.pc = "loop"
    /\ Top.i = Len(TopProd)
    /\ LET kids == tree[Top.node].children
           NT_kids == {k \in 1..Len(kids) :
                          tree[kids[k]].root \in bnf_grammar.non_terminals}
           depth == IF NT_kids = {} THEN Top.depth + 1 ELSE Top.depth
           new_max == IF ~invalid /\ depth > max_depth THEN depth
                      ELSE max_depth
       IN  /\ nodes' = IF NT_kids = {} THEN nodes + 1 ELSE nodes
           /\ max_depth' = new_max
           /\ invalid' = IF ~invalid
                         THEN DepthExceeded(new_max, params.MAX_TREE_DEPTH)
                         ELSE invalid
    /\ stack' = Pop(stack)
    /\ pc' = AfterReturn(stack)
    /\ UNCHANGED <<params, genome, ret, prev, used_input, wraps, output, tree,
                   index>>
    /\ UNCHANGED <<fqVars, piVars>>

\* map_tree_from_genome after genome_tree_map has returned
TreeFinish ==
    /\ pc = "tree_ret"
    /\ ret' = IF invalid
              THEN Some(Result(None, genome, nodes, invalid, max_depth, index))
              ELSE Some(Result(Some(Join(output)), genome, nodes, invalid,
                               max_depth, index))
    /\ pc' = "done"
    /\ UNCHANGED <<params, genome, prev, used_input, wraps, max_depth, nodes,
                   output>>
    /\ UNCHANGED <<fqVars, piVars, treeVars>>

(***************************************************************************)
(* mapper, tree-present path.  Tree.get_tree_info lives in                 *)
(* representation/tree.py; it is modelled from its description: one        *)
(* pre-order traversal, children left to right, collecting the codon of    *)
(* every expanded non-terminal and the text of every terminal.             *)
(***************************************************************************)
RECURSIVE PreOrder(_, _)
RECURSIVE PreOrderAll(_, _)
PreOrder(t, n) == <<n>> \o PreOrderAll(t, t[n].children)
PreOrderAll(t, kids) ==
    IF kids = <<>> THEN <<>>
    ELSE PreOrder(t, Head(kids)) \o PreOrderAll(t, Tail(kids))

RECURSIVE Collect(_, _, _)
Collect(t, order, nt_keys) ==
    IF order = <<>> THEN [input |-> <<>>, output |-> <<>>]
    ELSE LET node == t[Head(order)]
             rest == Collect(t, Tail(order), nt_keys)
         IN  IF node.root \in nt_keys
             THEN [rest EXCEPT !.input = node.codon \o @]
             ELSE [rest EXCEPT !.output = <<node.root>> \o @]

RECURSIVE Height(_, _)
Height(t, n) ==
    LET kids == t[n].children
        below == {Height(t, kids[k]) : k \in 1..Len(kids)}
    IN  IF kids = <<>> THEN 0
        ELSE 1 + (CHOOSE h \in below : \A x \in below : x <= h)

Unexpanded(t, nt_keys) ==
    {n \in 1..Len(t) : t[n].root \in nt_keys /\ t[n].children = <<>>}

\* tree.get_tree_info(nt_keys, [], []) on a fully expanded tree
GetTreeInfo(t, nt_keys) ==
    LET c == Collect(t, PreOrder(t, 1), nt_keys)
    IN  [input |-> c.input, output |-> c.output,
         invalid |-> Unexpanded(t, nt_keys) # {},
         depth |-> Height(t, 1), nodes |-> Len(t)]

Kept(p, g, r, t, via, rev) ==
    [params |-> p, genome |-> g, ret |-> r, tree |-> t, via |-> via,
     rev |-> rev]

runVars == <<used_input, wraps, max_depth, nodes, output, unexpanded_symbols,
             production_queue, mask, position, tree, stack, index, invalid>>

\* mapper(None, tree) on the tree the last decode built
MapTree ==
    /\ pc = "done"
    /\ prev = None
    /\ tree # <<>>
    /\ Unexpanded(tree, bnf_grammar.non_terminals) = {}
    /\ LET info == GetTreeInfo(tree, bnf_grammar.non_terminals)
           result == Result(Some(Join(info.output)), info.input, info.nodes,
                            info.invalid, info.depth + 1, Len(info.input))
       IN  /\ ret' = Some(result)
           /\ prev' = Some(Kept(params, genome, ret[1], tree, "tree",
                                Some(result)))
    /\ genome' = None
    /\ pc' = "reversed"
    /\ UNCHANGED <<params, runVars>>

\* the caller decodes the genome that mapper sequenced from the tree
Redecode ==
    /\ pc = "reversed"
    /\ genome' = ret[1].genome
    /\ pc' = "idle"
    /\ UNCHANGED <<params, ret, prev, runVars>>

\* the caller raises params['MAX_WRAPS'], or switches from the tree-building
\* to the fast strategy, and maps the same genome again
SetParams ==
    /\ pc = "done"
    /\ prev = None
    /\ \E p \in [GENOME_OPERATIONS : BOOLEAN, PI_MAPPING : BOOLEAN,
                 MAX_WRAPS : 0..MaxWraps,
                 MAX_TREE_DEPTH : {params.MAX_TREE_DEPTH},
                 BNF_GRAMMAR : {params.BNF_GRAMMAR}] :
          /\ \/ /\ p.GENOME_OPERATIONS = params.GENOME_OPERATIONS
                /\ p.PI_MAPPING = params.PI_MAPPING
                /\ p.MAX_WRAPS > params.MAX_WRAPS
             \/ /\ Strategy(params) = "tree"
                /\ ~params.PI_MAPPING
                /\ Strategy(p) = "fq"
                /\ p.MAX_WRAPS = params.MAX_WRAPS
          /\ params' = p
    /\ prev' = Some(Kept(params, genome, ret[1], tree, "params", None))
    /\ pc' = "idle"
    /\ UNCHANGED <<genome, ret, runVars>>

\* one forward decode: a call of mapper with a genome, up to its return
Decode ==
    \/ MapGenome
    \/ FQStep \/ FQFinish
    \/ PIStep \/ PIFinish
    \/ TreeEnter \/ TreeChild \/ TreeReturn \/ TreeFinish

Next == Decode \/ MapTree \/ Redecode \/ SetParams

Spec == Init /\ [][Next]_vars

\* a call that has started keeps running: the decoder is single-threaded
\* straight-line code
FairSpec == Init /\ [][Decode]_vars /\ WF_vars(Decode)

(***************************************************************************)
(* Properties.                                                             *)
(***************************************************************************)
Done(strategy) == pc = "done" /\ Strategy(params) = strategy

r == ret[1]

old == prev[1]

\* C1: for each forward strategy, the used_codons a decode returns is at
\* most len(genome) * (max_wraps + 1), valid or invalid.
C1_UsedCodonsBound ==
    pc = "done" => r.used_codons <= Len(genome) * (params.MAX_WRAPS + 1)

\* C2: on a genome that neither strategy reads past its end, the fast
\* strategy and the tree-building strategy return the same invalid flag and
\* the same phenotype.
C2_StrategiesAgree ==
    (/\ Done("fq")
     /\ prev # None
     /\ old.via = "params"
     /\ Strategy(old.params) = "tree"
     /\ old.ret.used_codons <= Len(genome)
     /\ r.used_codons <= Len(genome))
    => /\ r.invalid = old.ret.invalid
       /\ r.phenotype = old.ret.phenotype

Leaves(t, nt_keys) == Collect(t, PreOrder(t, 1), nt_keys).output

C5_MaxDepthAtLeastOne == pc = "done" => r.depth >= 1

\* C6: genome_tree_map never expands a node deeper than max_tree_depth, so
\* at most max_tree_depth calls are expanding a node at any time.
C6_RecursionBounded ==
    pc = "tree" =>
        LET expanding == {k \in 1..Len(stack) : stack[k].pc = "loop"}
        IN  /\ \A k \in expanding : stack[k].depth <= params.MAX_TREE_DEPTH
            /\ Cardinality(expanding) <= params.MAX_TREE_DEPTH

\* C7: a genome whose decode is valid under max_wraps = w stays valid, with
\* the same strategy, grammar and max_tree_depth, under any larger max_wraps.
C7_WrapMonotone ==
    (/\ pc = "done"
     /\ prev # None
     /\ old.via = "params"
     /\ Strategy(old.params) = Strategy(params)
     /\ old.params.MAX_WRAPS < params.MAX_WRAPS
     /\ ~old.ret.invalid)
    => ~r.invalid

\* C7 witness: a decode that read past the end of the genome, was valid, and
\* was repeated with a larger max_wraps.
C7_Witness ==
    /\ pc = "done"
    /\ prev # None
    /\ old.via = "params"
    /\ Strategy(old.params) = Strategy(params)
    /\ old.params.MAX_WRAPS < params.MAX_WRAPS
    /\ ~old.ret.invalid
    /\ old.ret.used_codons > Len(genome)
    /\ ~r.invalid

\* the production each expanded node of a tree selected
Derivation(t) ==
    [n \in 1..Len(t) |->
        [root |-> t[n].root, children |-> t[n].children,
         selection |->
             IF t[n].codon = None THEN None
             ELSE Some(Selection(t[n].codon[1],
                                 bnf_grammar.rules[t[n].root].no_choices))]]

OddPositions(g, max_wraps) ==
    {k \in 0..(Len(g) * (max_wraps + 1) - 1) : g[(k % Len(g)) + 1] % 2 = 1}

Least(S) == CHOOSE k \in S : \A x \in S : k <= x

RECURSIVE Repeat(_, _)
Repeat(text, k) == IF k = 0 THEN "" ELSE text \o Repeat(text, k - 1)

\* C9: for S -> "a" S | "b" the tree-building decode returns "a" * k + "b",
\* k + 2 nodes, k + 1 used codons and valid, where k is the least read
\* position below len(genome) * (max_wraps + 1) with an odd codon, provided
\* k exists and k + 2 <= max_tree_depth; otherwise invalid and no phenotype.
C9_Reference ==
    (Done("tree") /\ params.BNF_GRAMMAR = "aS") =>
        LET odd == OddPositions(genome, params.MAX_WRAPS)
        IN  IF odd # {} /\ Least(odd) + 2 <= params.MAX_TREE_DEPTH
            THEN /\ r.phenotype = Some(Repeat("a", Least(odd)) \o "b")
                 /\ r.nodes = Least(odd) + 2
                 /\ r.used_codons = Least(odd) + 1
                 /\ r.invalid = FALSE
            ELSE /\ r.invalid = TRUE
                 /\ r.phenotype = None

\* C9 witness: the scenario of a genome even, odd, even: "ab", 3 nodes,
\* 2 used codons, valid.
C9_Witness ==
    /\ Done("tree")
    /\ params.BNF_GRAMMAR = "aS"
    /\ Len(genome) = 3
    /\ genome[1] % 2 = 0 /\ genome[2] % 2 = 1 /\ genome[3] % 2 = 0
    /\ r.phenotype = Some("ab")
    /\ r.nodes = 3
    /\ r.used_codons = 2
    /\ ~r.invalid

RECURSIVE NTPositions(_, _)
NTPositions(queue, from) ==
    IF queue = <<>> THEN <<>>
    ELSE IF IsNT(Head(queue))
         THEN <<from>> \o NTPositions(Tail(queue), from + 1)
         ELSE NTPositions(Tail(queue), from + 1)

\* C10: after every expansion step of the position-independent decode the
\* mask is the increasing list of the positions of all non-terminal entries
\* of the production queue, one distinct position per entry.
C10_MaskIsNTPositions ==
    (pc = "pi" /\ position > 0) => mask = NTPositions(production_queue, 0)
=============================================================================
